---------------------------- MODULE Spec2Model ----------------------------
(***************************************************************************)
(* A model of the fishing-log analyzer in src/1.0-表弟.py.                 *)
(*                                                                         *)
(* Text is modelled as a sequence of lines and a line as a sequence of     *)
(* tokens.  A token is one character of the log (a digit, a dot, a blank,  *)
(* a letter of a name) or one of the fixed Chinese literals of the log     *)
(* grammar, written here in ASCII because the module is ASCII-only.  The   *)
(* regular expressions of FishingLogParser are kept as data and            *)
(* interpreted by a backtracking matcher with Python's priorities (search: *)
(* leftmost start; lazy: shortest first; greedy: longest first).           *)
(***************************************************************************)
EXTENDS Integers, Sequences, FiniteSets, TLC

VARIABLES
    \* FishingLogParser.parse_text
    text,        \* parse_text's argument: the raw lines, as indices into Corpus
    pc,          \* where parse_text is: "loop", "done" (returned), "raised";
                 \* "idle" when no call is modelled
    line_idx,    \* the loop variable of parse_text, 1-based here
    records,     \* parse_text's local list `records`
    hook_cache,  \* parse_text's local dict `hook_cache`: rod -> parsed hook
    prev_hook_cache,  \* history: hook_cache as the previous call left it
    \* RecordCache
    cache,       \* self.cache, in insertion order: a sequence of [key, records]
    max_size,    \* self.max_size
    last_call,   \* history: the last call of get, set or clear and its outcome
    \* FishingLogAnalyzer
    input_box,   \* the raw lines typed into self.input_box
    all_records,      \* self.all_records
    current_records,  \* self.current_records
    current_view,     \* self.current_view: "summary", "detail", "lost"
    sort_state,  \* self.sort_state: [weight, exp] of booleans
    rod_vars,    \* self.rod_vars: rod -> whether its checkbox is selected
    table,       \* what self.table_container and self.header_frame show
    dialog,      \* the messagebox the last handler opened, "none" if none
    parser_called,    \* history: the last handler called parse_text
    running      \* FALSE once _on_close has destroyed the window

parse_vars == <<text, pc, line_idx, records, hook_cache, prev_hook_cache>>
cache_vars == <<cache, max_size, last_call>>
app_vars ==
    <<input_box, all_records, current_records, current_view, sort_state,
      rod_vars, table, dialog, parser_called, running>>

vars == <<parse_vars, cache_vars, app_vars>>

---------------------------------------------------------------------------
(* Tokens.  The literal pieces of the three patterns and of the emitted    *)
(* records; the comment gives the text of the source.                      *)

SP == " "                        \* a blank
COLON == ":"                     \* ":" standing alone, as in " : "
DOT == "."
tHook == "<yu-shang-gou-le>"     \* 鱼上钩了   (hook marker)
tBangRod == "<!yu-gan:>"         \* ！鱼竿：   (full-width "!" and ":")
tFishInfo == "<,yu-xin-xi:[>"    \* ，鱼信息:【
tClose == "<]>"                  \* 】
tKg == "kg"
tG == "g"
tCapture == "<bu-huo>"           \* 捕获       (capture marker)
tCapRod == "<:yu-gan:>"          \* ：鱼竿:    (full-width ":", then ASCII ":")
tCommaOpen == "<,[>"             \* ,【
tGongjin == "<gong-jin>"         \* 公斤
tKe == "<ke>"                    \* 克
tTotalExp == "<zong-jing-yan:>"  \* 总经验:
tCostTime == "<hao-shi:>"        \* 耗时:
tSec == "<miao>"                 \* 秒
tBait == "<yu-er:>"              \* 鱼饵:
tLost == "<yu-tuo-gou-le>"       \* 鱼脱钩了   (lost marker)
tTuoGou == "<tuo-gou>"           \* 脱钩       (bait of every lost record)
tFullwidthQuestion == "<U+FF1F>" \* ？  the full-width question mark U+FF1F
tAsciiQuestion == "?"            \* ?   the ASCII question mark U+003F

Digits == {"0", "1", "2", "3", "4", "5", "6", "7", "8", "9"}

DigitValue(d) ==
    CASE d = "0" -> 0 [] d = "1" -> 1 [] d = "2" -> 2 [] d = "3" -> 3
      [] d = "4" -> 4 [] d = "5" -> 5 [] d = "6" -> 6 [] d = "7" -> 7
      [] d = "8" -> 8 [] d = "9" -> 9

Range(s) == {s[i] : i \in 1..Len(s)}

SetMin(S) == CHOOSE x \in S : \A y \in S : x <= y
SetMax(S) == CHOOSE x \in S : \A y \in S : x >= y

\* int(s) of a non-empty run of digits
RECURSIVE IntOf(_)
IntOf(ds) ==
    IF ds = <<>> THEN 0
    ELSE 10 * IntOf(SubSeq(ds, 1, Len(ds) - 1)) + DigitValue(ds[Len(ds)])

---------------------------------------------------------------------------
(* str.strip() and friends, on token sequences.                            *)

IsBlank(line) == \A i \in 1..Len(line) : line[i] = SP

RECURSIVE LStrip(_)
LStrip(s) == IF s # <<>> /\ s[1] = SP THEN LStrip(Tail(s)) ELSE s

RECURSIVE RStrip(_)
RStrip(s) ==
    IF s # <<>> /\ s[Len(s)] = SP THEN RStrip(SubSeq(s, 1, Len(s) - 1)) ELSE s

Strip(s) == LStrip(RStrip(s))

\* text.strip() on a text given as its lines (joined by newlines): blank
\* lines at either end go, the first remaining line loses its leading and
\* the last its trailing blanks.
RECURSIVE DropLeadingBlank(_)
DropLeadingBlank(ls) ==
    IF ls # <<>> /\ IsBlank(ls[1]) THEN DropLeadingBlank(Tail(ls)) ELSE ls

RECURSIVE DropTrailingBlank(_)
DropTrailingBlank(ls) ==
    IF ls # <<>> /\ IsBlank(ls[Len(ls)])
    THEN DropTrailingBlank(SubSeq(ls, 1, Len(ls) - 1))
    ELSE ls

StripSplitLines(ls) ==
    LET core == DropTrailingBlank(DropLeadingBlank(ls))
        n == Len(core)
    IN  [i \in 1..n |->
            LET a == IF i = 1 THEN LStrip(core[i]) ELSE core[i]
            IN  IF i = n THEN RStrip(a) ELSE a]

---------------------------------------------------------------------------
(* Regular expressions.  A pattern is a sequence of elements               *)
(*   [t, any, c, min, g]:                                                  *)
(*   t = "one"    one token of class c (any = TRUE: ".")                   *)
(*   t = "greedy" min or more tokens of the class, longest first           *)
(*   t = "lazy"   min or more tokens of the class, shortest first          *)
(*   t = "end"    "$"                                                      *)
(*   g > 0: the element is capture group g.                                *)

Lit(tok) == [t |-> "one", any |-> FALSE, c |-> {tok}, min |-> 1, g |-> 0]
OneOf(S, grp) == [t |-> "one", any |-> FALSE, c |-> S, min |-> 1, g |-> grp]
GreedyPlus(S, grp) == [t |-> "greedy", any |-> FALSE, c |-> S, min |-> 1, g |-> grp]
GreedyPlusAny(grp) == [t |-> "greedy", any |-> TRUE, c |-> {}, min |-> 1, g |-> grp]
LazyPlusAny(grp) == [t |-> "lazy", any |-> TRUE, c |-> {}, min |-> 1, g |-> grp]
LazyStarAny == [t |-> "lazy", any |-> TRUE, c |-> {}, min |-> 0, g |-> 0]
EndOfString == [t |-> "end", any |-> FALSE, c |-> {}, min |-> 0, g |-> 0]

NoMatch == [ok |-> FALSE, caps |-> <<>>]

Accepts(e, tok) == e.any \/ tok \in e.c

\* the longest run of tokens from pos that element e accepts
RECURSIVE RunLength(_, _, _)
RunLength(e, s, pos) ==
    IF pos <= Len(s) /\ Accepts(e, s[pos]) THEN 1 + RunLength(e, s, pos + 1) ELSE 0

WithGroup(e, sub, r) ==
    IF e.g = 0 THEN r ELSE [ok |-> TRUE, caps |-> (e.g :> sub) @@ r.caps]

\* match elements k.. of pat at position pos of s; the groups of the first
\* match in backtracking order
RECURSIVE RxFrom(_, _, _, _)
RxFrom(pat, s, k, pos) ==
    IF k > Len(pat) THEN [ok |-> TRUE, caps |-> <<>>]
    ELSE LET e == pat[k] IN
      CASE e.t = "end" ->
             IF pos = Len(s) + 1 THEN RxFrom(pat, s, k + 1, pos) ELSE NoMatch
        [] e.t = "one" ->
             IF pos <= Len(s) /\ Accepts(e, s[pos])
             THEN LET r == RxFrom(pat, s, k + 1, pos + 1)
                  IN  IF r.ok THEN WithGroup(e, <<s[pos]>>, r) ELSE NoMatch
             ELSE NoMatch
        [] e.t \in {"lazy", "greedy"} ->
             LET run == RunLength(e, s, pos)
                 good == {n \in e.min..run : RxFrom(pat, s, k + 1, pos + n).ok}
             IN  IF good = {} THEN NoMatch
                 ELSE LET n == IF e.t = "lazy" THEN SetMin(good) ELSE SetMax(good)
                      IN  WithGroup(e, SubSeq(s, pos, pos + n - 1),
                                    RxFrom(pat, s, k + 1, pos + n))

\* pattern.search(s): the match at the leftmost start
RxSearch(pat, s) ==
    LET starts == {i \in 1..(Len(s) + 1) : RxFrom(pat, s, 1, i).ok}
    IN  IF starts = {} THEN NoMatch ELSE RxFrom(pat, s, 1, SetMin(starts))

---------------------------------------------------------------------------
(* FishingLogParser                                                        *)

DigitOrDot == Digits \cup {DOT}

\* r"鱼上钩了！鱼竿：(\d)，鱼信息:【(.+?)】([\d.]+)(kg|g)"
HOOK_PATTERN ==
    << Lit(tHook), Lit(tBangRod), OneOf(Digits, 1), Lit(tFishInfo),
       LazyPlusAny(2), Lit(tClose), GreedyPlus(DigitOrDot, 3),
       OneOf({tKg, tG}, 4) >>

\* r"捕获：鱼竿:(\d),【(.+?)】.*?([\d.]+)(公斤|克).*?总经验:(\d+).*?耗时:(\d+)秒.*?鱼饵:(.+)$"
CAPTURE_PATTERN ==
    << Lit(tCapture), Lit(tCapRod), OneOf(Digits, 1), Lit(tCommaOpen),
       LazyPlusAny(2), Lit(tClose), LazyStarAny, GreedyPlus(DigitOrDot, 3),
       OneOf({tGongjin, tKe}, 4), LazyStarAny, Lit(tTotalExp),
       GreedyPlus(Digits, 5), LazyStarAny, Lit(tCostTime),
       GreedyPlus(Digits, 6), Lit(tSec), LazyStarAny, Lit(tBait),
       GreedyPlusAny(7), EndOfString >>

\* r"鱼脱钩了！鱼竿：(\d)"
LOST_PATTERN == << Lit(tLost), Lit(tBangRod), OneOf(Digits, 1) >>


\* A Python float that came from a decimal literal, kept exact: m / 10^d,
\* with no trailing zero in the fraction.
RECURSIVE Normalize(_)
Normalize(x) ==
    IF x.d > 0 /\ x.m % 10 = 0 THEN Normalize([m |-> x.m \div 10, d |-> x.d - 1])
    ELSE x

Zero == [m |-> 0, d |-> 0]      \* 0.0

DotPositions(value) == {i \in 1..Len(value) : value[i] = DOT}

\* float(value) for a run of digits and dots: ValueError (ok = FALSE) unless
\* there is at most one dot and at least one digit
Float(value) ==
    LET dots == DotPositions(value)
    IN  IF Cardinality(dots) > 1 \/ Len(value) = Cardinality(dots)
        THEN [ok |-> FALSE, v |-> Zero]
        ELSE LET p == IF dots = {} THEN Len(value) + 1 ELSE SetMin(dots)
                 int == SubSeq(value, 1, p - 1)
                 frac == SubSeq(value, p + 1, Len(value))
             IN  [ok |-> TRUE,
                  v |-> Normalize([m |-> IntOf(int \o frac), d |-> Len(frac)])]

\* mutant: only "g" is taken for a gram unit, "克" is left as kilograms
ParseWeight_GramOnlyAscii(value, unit) ==
    LET f == Float(value)
    IN  IF ~f.ok THEN f
        ELSE [ok |-> TRUE,
              v |-> IF unit = tG
                    THEN Normalize([m |-> f.v.m, d |-> f.v.d + 3])
                    ELSE f.v]

\* _parse_weight: weight / 1000 if unit in ("g", "克") else weight
ParseWeight(value, unit) ==
    LET f == Float(value)
    IN  IF ~f.ok THEN f
        ELSE [ok |-> TRUE,
              v |-> IF unit \in {tG, tKe}
                    THEN Normalize([m |-> f.v.m, d |-> f.v.d + 3])
                    ELSE f.v]

None == [type |-> "none"]            \* parse_line_fast returned None
ValueError == [type |-> "raise"]     \* parse_line_fast raised ValueError

SepPositions(line) ==
    {i \in 1..(Len(line) - 2) :
        line[i] = SP /\ line[i + 1] = COLON /\ line[i + 2] = SP}

\* mutant: the name is cut one character later, s[:11]
FirstTen_Eleven(s) == IF Len(s) > 11 THEN SubSeq(s, 1, 11) ELSE s

\* s[:10]
FirstTen(s) == IF Len(s) > 10 THEN SubSeq(s, 1, 10) ELSE s

HookEvent(time, match) ==
    LET w == ParseWeight(match.caps[3], match.caps[4][1])
    IN  IF ~w.ok THEN ValueError
        ELSE [type |-> "hook", time |-> time, rod |-> IntOf(match.caps[1]),
              fish |-> FirstTen(match.caps[2]), weight |-> w.v]

CaptureEvent(time, match) ==
    LET w == ParseWeight(match.caps[3], match.caps[4][1])
    IN  IF ~w.ok THEN ValueError
        ELSE [type |-> "capture", time |-> time, rod |-> IntOf(match.caps[1]),
              fish |-> FirstTen(match.caps[2]), weight |-> w.v,
              exp |-> IntOf(match.caps[5]),
              cost |-> match.caps[6] \o <<tSec>>,
              bait |-> match.caps[7]]

LostEvent(time, match) ==
    [type |-> "lost", time |-> time, rod |-> IntOf(match.caps[1]),
     fish |-> <<tFullwidthQuestion>>, weight |-> Zero]

ParseLineFast(line) ==
    IF SepPositions(line) = {} THEN None
    ELSE LET at == SetMin(SepPositions(line))
             time == Strip(SubSeq(line, 1, at - 1))
             content == SubSeq(line, at + 3, Len(line))
         IN  IF tHook \in Range(content)
             THEN LET match == RxSearch(HOOK_PATTERN, content)
                  IN  IF match.ok THEN HookEvent(time, match) ELSE None
             ELSE IF tCapture \in Range(content)
             THEN LET match == RxSearch(CAPTURE_PATTERN, content)
                  IN  IF match.ok THEN CaptureEvent(time, match) ELSE None
             ELSE IF tLost \in Range(content)
             THEN LET match == RxSearch(LOST_PATTERN, content)
                  IN  IF match.ok THEN LostEvent(time, match) ELSE None
             ELSE None

---------------------------------------------------------------------------
(* The input texts.  Corpus is the set of log lines the model draws from;  *)
(* the source text of each line is given above it.                         *)

Sep == <<SP, COLON, SP>>         \* " : "

LongName == <<"n1", "n2", "n3", "n4", "n5", "n6", "n7", "n8", "n9", "n10", "n11">>

\* "10:00 : 鱼上钩了！鱼竿：1，鱼信息:【鲤鱼】2.5kg"
HookRod1 ==
    <<"10:00">> \o Sep \o <<tHook, tBangRod, "1", tFishInfo, "li", "yu", tClose,
                             "2", DOT, "5", tKg>>
\* "10:01 : 鱼上钩了！鱼竿：1，鱼信息:【<a name of 11 characters>】500g"
HookRod1Long ==
    <<"10:01">> \o Sep \o <<tHook, tBangRod, "1", tFishInfo>> \o LongName
        \o <<tClose, "5", "0", "0", tG>>
\* "10:02 : 鱼上钩了！鱼竿：2，鱼信息:【鲫鱼】1.2kg"
HookRod2 ==
    <<"10:02">> \o Sep \o <<tHook, tBangRod, "2", tFishInfo, "ji", "yu", tClose,
                             "1", DOT, "2", tKg>>
\* "10:03 : 捕获：鱼竿:1,【草鱼】1800克,总经验:100,耗时:30秒,鱼饵:蚯蚓"
CaptureRod1 ==
    <<"10:03">> \o Sep \o <<tCapture, tCapRod, "1", tCommaOpen, "cao", "yu", tClose,
                             "1", "8", "0", "0", tKe, ",", tTotalExp, "1", "0", "0",
                             ",", tCostTime, "3", "0", tSec, ",", tBait,
                             "qiu", "yin">>
\* "10:04 : 捕获：鱼竿:2,【鲈鱼】3.1公斤,总经验:50,耗时:12秒,鱼饵:面包 "
\* (the bait is followed by a blank)
CaptureRod2 ==
    <<"10:04">> \o Sep \o <<tCapture, tCapRod, "2", tCommaOpen, "lu", "yu", tClose,
                             "3", DOT, "1", tGongjin, ",", tTotalExp, "5", "0",
                             ",", tCostTime, "1", "2", tSec, ",", tBait,
                             "mian", "bao", SP>>
\* "10:05 : 鱼脱钩了！鱼竿：1"
LostRod1 == <<"10:05">> \o Sep \o <<tLost, tBangRod, "1">>
\* "10:06 : 鱼脱钩了！鱼竿：2"
LostRod2 == <<"10:06">> \o Sep \o <<tLost, tBangRod, "2">>
\* "garbage text with no separator"
Garbage == <<"garbage", SP, "text">>
\* ""
EmptyLine == <<>>
\* "10:07 : 鱼上钩了！鱼竿：2，鱼信息:【鲫鱼】1.2.3kg"
HookBadWeight ==
    <<"10:07">> \o Sep \o <<tHook, tBangRod, "2", tFishInfo, "ji", "yu", tClose,
                             "1", DOT, "2", DOT, "3", tKg>>
\* "10:08 : 捕获：鱼竿:1,【草鱼】1800克,总经验:100,耗时:30秒,鱼饵:"
CaptureEmptyBait ==
    <<"10:08">> \o Sep \o <<tCapture, tCapRod, "1", tCommaOpen, "cao", "yu", tClose,
                             "1", "8", "0", "0", tKe, ",", tTotalExp, "1", "0", "0",
                             ",", tCostTime, "3", "0", tSec, ",", tBait>>

\* "10:09 : 鱼上钩了！鱼竿：12，鱼信息:【鲤鱼】2.5kg"
HookRod12 ==
    <<"10:09">> \o Sep \o <<tHook, tBangRod, "1", "2", tFishInfo, "li", "yu", tClose,
                             "2", DOT, "5", tKg>>
\* "10:10 : 鱼脱钩了！鱼竿：12"
LostRod12 == <<"10:10">> \o Sep \o <<tLost, tBangRod, "1", "2">>
\* "10:11 : 捕获：鱼竿:2,【鱼上钩了】3.1公斤,总经验:50,耗时:12秒,鱼饵:面包"
CaptureHookInName ==
    <<"10:11">> \o Sep \o <<tCapture, tCapRod, "2", tCommaOpen, tHook, tClose,
                             "3", DOT, "1", tGongjin, ",", tTotalExp, "5", "0",
                             ",", tCostTime, "1", "2", tSec, ",", tBait,
                             "mian", "bao">>

\* "10:12 : 捕获：鱼竿:2,【<a name of 11 characters>】3.1公斤,总经验:50,耗时:12秒,鱼饵:面包"
CaptureRod2Long ==
    <<"10:12">> \o Sep \o <<tCapture, tCapRod, "2", tCommaOpen>> \o LongName
        \o <<tClose, "3", DOT, "1", tGongjin, ",", tTotalExp, "5", "0",
              ",", tCostTime, "1", "2", tSec, ",", tBait, "mian", "bao">>
\* "10:13 : 鱼脱钩了！鱼竿：1 捕获"
LostWithCaptureMarker ==
    <<"10:13">> \o Sep \o <<tLost, tBangRod, "1", SP, tCapture>>

Corpus ==
    << HookRod1, HookRod1Long, HookRod2, CaptureRod1, CaptureRod2, LostRod1,
       LostRod2, Garbage, EmptyLine, HookBadWeight, CaptureEmptyBait,
       HookRod12, LostRod12, CaptureHookInName, CaptureRod2Long,
       LostWithCaptureMarker >>

MaxLines == 3                    \* the longest text, in lines

Texts == UNION {[1..n -> 1..Len(Corpus)] : n \in 0..MaxLines}

RawLines(t) == [i \in 1..Len(t) |-> Corpus[t[i]]]

\* lines = text.strip().splitlines()
Lines == StripSplitLines(RawLines(text))

\* every form a line of the corpus can have in `lines`
LineForms ==
    UNION {{Corpus[i], LStrip(Corpus[i]), RStrip(Corpus[i]), Strip(Corpus[i])} :
             i \in 1..Len(Corpus)}

\* parse_line_fast is a pure function: its result on every line form,
\* computed once
ParseTable == [line \in LineForms |-> ParseLineFast(line)]

---------------------------------------------------------------------------
(* parse_text                                                              *)

NoValue == <<>>                  \* the default "" of cost and bait

\* FishingRecord(record_type="capture", ...) of a parsed capture line
CaptureRecord(parsed) ==
    [record_type |-> "capture", time |-> parsed.time, rod |-> parsed.rod,
     fish |-> parsed.fish, weight |-> parsed.weight, exp |-> parsed.exp,
     cost |-> parsed.cost, bait |-> parsed.bait]

\* mutant: the pending hook is taken off the table but its fish and weight
\* are not used
LostFromHook_IgnoresHook(rod, hook_data) ==
    [record_type |-> "lost", time |-> hook_data.time, rod |-> rod,
     fish |-> <<tFullwidthQuestion>>, weight |-> Zero, exp |-> 0,
     cost |-> NoValue, bait |-> <<tTuoGou>>]

\* mutant: bait="脱钩" is left out, the record keeps the default bait ""
LostFromHook_DefaultBait(rod, hook_data) ==
    [record_type |-> "lost", time |-> hook_data.time, rod |-> rod,
     fish |-> hook_data.fish, weight |-> hook_data.weight, exp |-> 0,
     cost |-> NoValue, bait |-> NoValue]

\* FishingRecord(record_type="lost", ...) built from the pending hook
LostFromHook(rod, hook_data) ==
    [record_type |-> "lost", time |-> hook_data.time, rod |-> rod,
     fish |-> hook_data.fish, weight |-> hook_data.weight, exp |-> 0,
     cost |-> NoValue, bait |-> <<tTuoGou>>]

\* mutant: the placeholder record is left without the Lost line's time
LostPlaceholder_NoTime(parsed) ==
    [record_type |-> "lost", time |-> NoValue, rod |-> parsed.rod,
     fish |-> <<tFullwidthQuestion>>, weight |-> Zero, exp |-> 0,
     cost |-> NoValue, bait |-> <<tTuoGou>>]

\* FishingRecord(record_type="lost", ...) when no hook is pending
LostPlaceholder(parsed) ==
    [record_type |-> "lost", time |-> parsed.time, rod |-> parsed.rod,
     fish |-> <<tFullwidthQuestion>>, weight |-> Zero, exp |-> 0,
     cost |-> NoValue, bait |-> <<tTuoGou>>]

\* mutant: hook_cache.setdefault(parsed["rod"], parsed), the first hook stays
PutHook_KeepFirst(hooks, parsed) ==
    [r \in DOMAIN hooks \cup {parsed.rod} |->
        IF r \in DOMAIN hooks THEN hooks[r] ELSE parsed]

\* hook_cache[parsed["rod"]] = parsed
PutHook(hooks, parsed) ==
    [r \in DOMAIN hooks \cup {parsed.rod} |->
        IF r = parsed.rod THEN parsed ELSE hooks[r]]

\* mutant: hook_cache.clear() instead of pop, every rod loses its entry
PopHook_AllRods(hooks, rod) == <<>>

\* mutant: hook_cache.get(rod) instead of pop, the entry stays
PopHook_Keeps(hooks, rod) == hooks

\* hook_cache.pop(rod, None): the cache afterwards
PopHook(hooks, rod) == [r \in DOMAIN hooks \ {rod} |-> hooks[r]]

CACHE_SIZE == 1000

\* no call of RecordCache yet
NoCall == [op |-> "none"]

\* RecordCache.__init__(max_size)
RecordCacheInit(size) ==
    /\ cache = <<>>
    /\ max_size = size
    /\ last_call = NoCall

\* the window as _setup_ui leaves it: nothing in table_container, the
\* header row not shown
EmptyTable == [header |-> FALSE, content |-> "empty", rows |-> <<>>]

\* range(1, 6): the rods that have a checkbox
RodBoxes == 1..5

\* FishingLogAnalyzer.__init__, but for the cache
AnalyzerInit ==
    /\ input_box = <<>>
    /\ all_records = <<>>
    /\ current_records = <<>>
    /\ current_view = "summary"
    /\ sort_state = [weight |-> FALSE, exp |-> FALSE]
    /\ rod_vars = [rod \in RodBoxes |-> TRUE]
    /\ table = EmptyTable
    /\ dialog = "none"
    /\ parser_called = FALSE
    /\ running = TRUE

\* parse_text(text) has been entered, by a caller other than the analyzer,
\* which stands as constructed
Init ==
    /\ text \in Texts
    /\ pc = "loop"
    /\ line_idx = 1
    /\ records = <<>>
    /\ hook_cache = <<>>
    /\ prev_hook_cache = <<>>
    /\ RecordCacheInit(CACHE_SIZE)
    /\ AnalyzerInit

InLoop == pc = "loop" /\ line_idx <= Len(Lines)

Parsed == ParseTable[Lines[line_idx]]

\* parse_line_fast raises ValueError; parse_text does not catch it
LineRaises ==
    /\ InLoop
    /\ Parsed.type = "raise"
    /\ pc' = "raised"
    /\ UNCHANGED <<text, line_idx, records, hook_cache>>
    /\ UNCHANGED <<prev_hook_cache, cache_vars, app_vars>>

\* mutant: an unrecognized line resets the pending hooks
LineSkipped_ClearsCache ==
    /\ InLoop
    /\ Parsed.type = "none"
    /\ hook_cache' = <<>>
    /\ line_idx' = line_idx + 1
    /\ UNCHANGED <<text, pc, records>>
    /\ UNCHANGED <<prev_hook_cache, cache_vars, app_vars>>

\* if not parsed: continue
LineSkipped ==
    /\ InLoop
    /\ Parsed.type = "none"
    /\ line_idx' = line_idx + 1
    /\ UNCHANGED <<text, pc, records, hook_cache>>
    /\ UNCHANGED <<prev_hook_cache, cache_vars, app_vars>>

\* mutant: the hook is also appended to the output
LineHook_EmitsRecord ==
    /\ InLoop
    /\ Parsed.type = "hook"
    /\ hook_cache' = PutHook(hook_cache, Parsed)
    /\ records' = Append(records,
           [record_type |-> "hook", time |-> Parsed.time, rod |-> Parsed.rod,
            fish |-> Parsed.fish, weight |-> Parsed.weight, exp |-> 0,
            cost |-> NoValue, bait |-> NoValue])
    /\ line_idx' = line_idx + 1
    /\ UNCHANGED <<text, pc>>
    /\ UNCHANGED <<prev_hook_cache, cache_vars, app_vars>>

\* if parsed["type"] == "hook": hook_cache[parsed["rod"]] = parsed
LineHook ==
    /\ InLoop
    /\ Parsed.type = "hook"
    /\ hook_cache' = PutHook(hook_cache, Parsed)
    /\ line_idx' = line_idx + 1
    /\ UNCHANGED <<text, pc, records>>
    /\ UNCHANGED <<prev_hook_cache, cache_vars, app_vars>>

\* mutant: the pending hook is promoted, its fish and weight go into the
\* capture record
LineCapture_PromotesHook ==
    /\ InLoop
    /\ Parsed.type = "capture"
    /\ records' = Append(records,
           IF Parsed.rod \in DOMAIN hook_cache
           THEN [CaptureRecord(Parsed) EXCEPT
                    !.fish = hook_cache[Parsed.rod].fish,
                    !.weight = hook_cache[Parsed.rod].weight]
           ELSE CaptureRecord(Parsed))
    /\ hook_cache' = PopHook(hook_cache, Parsed.rod)
    /\ line_idx' = line_idx + 1
    /\ UNCHANGED <<text, pc>>
    /\ UNCHANGED <<prev_hook_cache, cache_vars, app_vars>>

\* elif parsed["type"] == "capture": append the record, pop the hook
LineCapture ==
    /\ InLoop
    /\ Parsed.type = "capture"
    /\ records' = Append(records, CaptureRecord(Parsed))
    /\ hook_cache' = PopHook(hook_cache, Parsed.rod)
    /\ line_idx' = line_idx + 1
    /\ UNCHANGED <<text, pc>>
    /\ UNCHANGED <<prev_hook_cache, cache_vars, app_vars>>

\* mutant: the lost record is put where its hook was, ahead of the records
\* finalized since
LineLostWithHook_Prepends ==
    /\ InLoop
    /\ Parsed.type = "lost"
    /\ Parsed.rod \in DOMAIN hook_cache
    /\ records' = <<LostFromHook(Parsed.rod, hook_cache[Parsed.rod])>> \o records
    /\ hook_cache' = PopHook(hook_cache, Parsed.rod)
    /\ line_idx' = line_idx + 1
    /\ UNCHANGED <<text, pc>>
    /\ UNCHANGED <<prev_hook_cache, cache_vars, app_vars>>

\* mutant: hook_cache.get(rod) instead of pop when the hook is found, the
\* entry stays pending
LineLostWithHook_KeepsHook ==
    /\ InLoop
    /\ Parsed.type = "lost"
    /\ Parsed.rod \in DOMAIN hook_cache
    /\ records' = Append(records, LostFromHook(Parsed.rod, hook_cache[Parsed.rod]))
    /\ line_idx' = line_idx + 1
    /\ UNCHANGED <<text, pc, hook_cache>>
    /\ UNCHANGED <<prev_hook_cache, cache_vars, app_vars>>

\* elif parsed["type"] == "lost", hook_data found: the record is the hook's
LineLostWithHook ==
    /\ InLoop
    /\ Parsed.type = "lost"
    /\ Parsed.rod \in DOMAIN hook_cache
    /\ records' = Append(records, LostFromHook(Parsed.rod, hook_cache[Parsed.rod]))
    /\ hook_cache' = PopHook(hook_cache, Parsed.rod)
    /\ line_idx' = line_idx + 1
    /\ UNCHANGED <<text, pc>>
    /\ UNCHANGED <<prev_hook_cache, cache_vars, app_vars>>

\* elif parsed["type"] == "lost", no hook_data: the placeholder record
LineLostNoHook ==
    /\ InLoop
    /\ Parsed.type = "lost"
    /\ Parsed.rod \notin DOMAIN hook_cache
    /\ records' = Append(records, LostPlaceholder(Parsed))
    /\ hook_cache' = PopHook(hook_cache, Parsed.rod)
    /\ line_idx' = line_idx + 1
    /\ UNCHANGED <<text, pc>>
    /\ UNCHANGED <<prev_hook_cache, cache_vars, app_vars>>

\* return records
Return ==
    /\ pc = "loop"
    /\ line_idx > Len(Lines)
    /\ pc' = "done"
    /\ UNCHANGED <<text, line_idx, records, hook_cache>>
    /\ UNCHANGED <<prev_hook_cache, cache_vars, app_vars>>

\* one iteration of the loop, or the return after the last line (the
\* time.sleep every 1000 lines changes no state)
Next ==
    \/ LineRaises
    \/ LineSkipped
    \/ LineHook
    \/ LineCapture
    \/ LineLostWithHook
    \/ LineLostNoHook
    \/ Return

Spec == Init /\ [][Next]_vars

---------------------------------------------------------------------------
(* What the input says, read off the lines alone (never off hook_cache or  *)
(* records): the claims compare the state of the pass with these.          *)

Ev(j) == ParseTable[Lines[j]]               \* the classification of line j
IsEvent(e) == e.type \in {"hook", "capture", "lost"}
Finalizing(j) == Ev(j).type \in {"capture", "lost"}
NProcessed == line_idx - 1                  \* lines 1..NProcessed are done

\* the lines before line j that are recognized events of rod r
EventsBefore(r, j) == {k \in 1..(j - 1) : IsEvent(Ev(k)) /\ Ev(k).rod = r}

\* the index of the most recent one, 0 if there is none
PrevIndex(r, j) == IF EventsBefore(r, j) = {} THEN 0 ELSE SetMax(EventsBefore(r, j))

\* r's most recent recognized event before line j is a Hook
HookPending(r, j) == PrevIndex(r, j) > 0 /\ Ev(PrevIndex(r, j)).type = "hook"

\* the position in the output of the record that line j finalizes
RecordIndexOf(j) == Cardinality({k \in 1..j : Finalizing(k)})

LastRecord(recs) == recs[Len(recs)]

AppendsOne(old, new) == Len(new) = Len(old) + 1 /\ SubSeq(new, 1, Len(old)) = old

---------------------------------------------------------------------------
(* Claims                                                                  *)

\* C1: a Lost line for rod r whose most recent recognized event for r is a
\* Hook appends exactly one record: a "lost" record with the Hook's time,
\* fish and weight (not the Lost line's time) and bait 脱钩.
C1_LostTakesHookData ==
    [][ (InLoop /\ Ev(line_idx).type = "lost"
               /\ HookPending(Ev(line_idx).rod, line_idx))
        => LET r == Ev(line_idx).rod
               hook == Ev(PrevIndex(r, line_idx))
               rec == LastRecord(records')
           IN  /\ AppendsOne(records, records')
               /\ rec.record_type = "lost"
               /\ rec.rod = r
               /\ rec.time = hook.time
               /\ rec.fish = hook.fish
               /\ rec.weight = hook.weight
               /\ rec.bait = <<tTuoGou>> ]_vars

\* C1 witness: a Hook, then a line that is no event of that rod, then the
\* rod's Lost line have been processed, and the record carries the Hook's
\* time, which is not the Lost line's.
C1_Witness ==
    /\ NProcessed >= 3
    /\ Ev(NProcessed).type = "lost"
    /\ PrevIndex(Ev(NProcessed).rod, NProcessed) = NProcessed - 2
    /\ Ev(NProcessed - 2).type = "hook"
    /\ records # <<>>
    /\ LastRecord(records).record_type = "lost"
    /\ LastRecord(records).time = Ev(NProcessed - 2).time
    /\ LastRecord(records).time # Ev(NProcessed).time

\* C2: a Capture line whose rod has a pending Hook appends exactly one
\* "capture" record, every field of which is the Capture line's own.
C2_CaptureUsesOwnFields ==
    [][ (InLoop /\ Ev(line_idx).type = "capture"
               /\ HookPending(Ev(line_idx).rod, line_idx))
        => LET cap == Ev(line_idx)
               rec == LastRecord(records')
           IN  /\ AppendsOne(records, records')
               /\ rec.record_type = "capture"
               /\ rec.time = cap.time
               /\ rec.rod = cap.rod
               /\ rec.fish = cap.fish
               /\ rec.weight = cap.weight
               /\ rec.exp = cap.exp
               /\ rec.cost = cap.cost
               /\ rec.bait = cap.bait ]_vars

\* C2 witness: a Capture line has been processed while a Hook of the same
\* rod with another fish and another weight was pending, and the record has
\* the Capture line's fish and weight.
C2_Witness ==
    /\ NProcessed >= 2
    /\ Ev(NProcessed).type = "capture"
    /\ HookPending(Ev(NProcessed).rod, NProcessed)
    /\ LET hook == Ev(PrevIndex(Ev(NProcessed).rod, NProcessed))
       IN  /\ hook.fish # Ev(NProcessed).fish
           /\ hook.weight # Ev(NProcessed).weight
           /\ records # <<>>
           /\ LastRecord(records).record_type = "capture"
           /\ LastRecord(records).fish = Ev(NProcessed).fish
           /\ LastRecord(records).weight = Ev(NProcessed).weight

\* a Lost line with no pending Hook appends one lost record with this fish,
\* weight 0 and the Lost line's own time
PlaceholderStep(fish) ==
    (InLoop /\ Ev(line_idx).type = "lost"
            /\ ~HookPending(Ev(line_idx).rod, line_idx))
    => LET rec == LastRecord(records')
       IN  /\ AppendsOne(records, records')
           /\ rec.record_type = "lost"
           /\ rec.rod = Ev(line_idx).rod
           /\ rec.fish = fish
           /\ rec.weight = Zero
           /\ rec.time = Ev(line_idx).time

HookOverwritten(k1, k2) ==
    /\ k1 < k2
    /\ Ev(k1).type = "hook"
    /\ Ev(k2).type = "hook"
    /\ Ev(k1).rod = Ev(k2).rod
    /\ PrevIndex(Ev(k2).rod, k2) = k1

\* C4: when a Hook of rod r is overwritten by a second Hook of r, no record
\* of rod r is emitted from the first Hook up to the second, and a Lost
\* line for r that follows the second Hook yields a lost record with the
\* second Hook's time, fish and weight, the only record of rod r emitted
\* since the first Hook.
C4_SecondHookWins ==
    \A k1, k2 \in 1..NProcessed :
        HookOverwritten(k1, k2) =>
            /\ RecordIndexOf(k2) <= Len(records)
            /\ \A i \in (RecordIndexOf(k1) + 1)..RecordIndexOf(k2) :
                   records[i].rod # Ev(k1).rod
            /\ \A j \in (k2 + 1)..NProcessed :
                   (Ev(j).type = "lost" /\ PrevIndex(Ev(j).rod, j) = k2) =>
                       /\ RecordIndexOf(j) <= Len(records)
                       /\ records[RecordIndexOf(j)].record_type = "lost"
                       /\ records[RecordIndexOf(j)].rod = Ev(k2).rod
                       /\ records[RecordIndexOf(j)].time = Ev(k2).time
                       /\ records[RecordIndexOf(j)].fish = Ev(k2).fish
                       /\ records[RecordIndexOf(j)].weight = Ev(k2).weight
                       /\ \A i \in (RecordIndexOf(k1) + 1)..RecordIndexOf(j) :
                              records[i].rod = Ev(k2).rod => i = RecordIndexOf(j)

\* C4 witness: two different Hook lines of one rod, then its Lost line; the
\* only record is the lost record of the second Hook.
C4_Witness ==
    /\ NProcessed = 3
    /\ HookOverwritten(1, 2)
    /\ Ev(1).time # Ev(2).time
    /\ Ev(1).fish # Ev(2).fish
    /\ Ev(3).type = "lost"
    /\ Ev(3).rod = Ev(2).rod
    /\ Len(records) = 1
    /\ records[1].time = Ev(2).time
    /\ records[1].fish = Ev(2).fish

\* C5 as stated: parse_text never raises; a line whose marker and grammar
\* match but whose weight token does not convert is skipped like an
\* Unrecognized line, and the pass goes on with what it has.
C5_BadWeightLineSkipped ==
    [][ (InLoop /\ Ev(line_idx).type = "raise")
        => /\ pc' = "loop"
           /\ line_idx' = line_idx + 1
           /\ UNCHANGED <<records, hook_cache>> ]_vars

\* C6: the output holds exactly one record per processed Capture or Lost
\* line, and the record at position i is the one of the i-th such line.
C6_OutputInInputOrder ==
    /\ Len(records) = RecordIndexOf(NProcessed)
    /\ \A j \in 1..NProcessed : Finalizing(j) =>
           LET rec == records[RecordIndexOf(j)]
               r == Ev(j).rod
           IN  /\ rec.record_type = Ev(j).type
               /\ rec.rod = r
               /\ rec.time = IF Ev(j).type = "lost" /\ HookPending(r, j)
                             THEN Ev(PrevIndex(r, j)).time
                             ELSE Ev(j).time

\* C6 witness: parse_text has returned two records of two rods; the second
\* comes from the Hook of line 1, which precedes the line of the first.
C6_Witness ==
    /\ pc = "done"
    /\ Len(records) = 2
    /\ records[1].rod # records[2].rod
    /\ Ev(1).type = "hook"
    /\ records[2].time = Ev(1).time
    /\ records[1].time = Ev(2).time

\* C7: every record is a "capture" or a "lost" record; Hook and
\* unrecognized lines add none, so the output has as many records as lines
\* processed that are neither, and none if there is no such line.
C7_HooksEmitNothing ==
    /\ \A i \in 1..Len(records) : records[i].record_type \in {"capture", "lost"}
    /\ Len(records) + Cardinality({j \in 1..NProcessed : Ev(j).type \in {"hook", "none"}})
           = NProcessed
    /\ (\A j \in 1..NProcessed : Ev(j).type \in {"hook", "none"}) => records = <<>>

\* C7 witness: parse_text has returned nothing for a text in which a Hook
\* was overwritten by a second one that is still pending at the end.
C7_Witness ==
    /\ pc = "done"
    /\ NProcessed >= 2
    /\ HookOverwritten(1, 2)
    /\ Ev(1).rod \in DOMAIN hook_cache
    /\ records = <<>>

\* the rod slots of the Hook lines processed so far
RodsHooked == {Ev(j).rod : j \in {k \in 1..NProcessed : Ev(k).type = "hook"}}

\* C8: hook_cache has an entry for rod r exactly when r's most recent
\* recognized event so far is a Hook, the entry is that Hook's data, and the
\* table is no larger than the number of rod slots seen in Hook lines.
C8_PendingTable ==
    /\ \A r \in DOMAIN hook_cache : HookPending(r, line_idx)
    /\ \A j \in 1..NProcessed :
           (IsEvent(Ev(j)) /\ HookPending(Ev(j).rod, line_idx))
               => Ev(j).rod \in DOMAIN hook_cache
    /\ \A r \in DOMAIN hook_cache : hook_cache[r] = Ev(PrevIndex(r, line_idx))
    /\ Cardinality(DOMAIN hook_cache) <= Cardinality(RodsHooked)

\* C8 witness: three Hook lines of two rods processed, two entries pending,
\* the entry of the rod hooked twice being its second Hook.
C8_Witness ==
    /\ NProcessed = 3
    /\ \A j \in 1..3 : Ev(j).type = "hook"
    /\ HookOverwritten(1, 3)
    /\ Ev(1).time # Ev(3).time
    /\ Cardinality(DOMAIN hook_cache) = 2
    /\ hook_cache[Ev(3).rod].time = Ev(3).time

\* one iteration of the loop of parse_text on the state st of the pass, the
\* line having been parsed as `parsed`
RunLine(st, parsed) ==
    IF st.pc = "raised" THEN st
    ELSE CASE parsed.type = "raise" -> [st EXCEPT !.pc = "raised"]
           [] parsed.type = "none" -> st
           [] parsed.type = "hook" ->
                [st EXCEPT !.hook_cache = PutHook(st.hook_cache, parsed)]
           [] parsed.type = "capture" ->
                [st EXCEPT !.records = Append(st.records, CaptureRecord(parsed)),
                           !.hook_cache = PopHook(st.hook_cache, parsed.rod)]
           [] parsed.type = "lost" ->
                [st EXCEPT !.records = Append(st.records,
                               IF parsed.rod \in DOMAIN st.hook_cache
                               THEN LostFromHook(parsed.rod, st.hook_cache[parsed.rod])
                               ELSE LostPlaceholder(parsed)),
                           !.hook_cache = PopHook(st.hook_cache, parsed.rod)]

\* parse_text as a function of the list `lines`: the state of the pass
\* after the first n lines (the state after n - 1 lines is computed once)
RECURSIVE RunLines(_, _)
RunLines(ls, n) ==
    IF n = 0 THEN [pc |-> "loop", records |-> <<>>, hook_cache |-> <<>>]
    ELSE CHOOSE after \in {RunLine(st, ParseTable[ls[n]]) :
                              st \in {RunLines(ls, n - 1)}} : TRUE

\* parse_text on a text given as its raw lines: "raised", or "done" with
\* the records returned
ParseRawLines(raw) ==
    LET ls == StripSplitLines(raw)
        st == RunLines(ls, Len(ls))
    IN  [st EXCEPT !.pc = IF st.pc = "loop" THEN "done" ELSE st.pc]

\* parse_text(t) for a text of the corpus
ParseText(t) == ParseRawLines(RawLines(t))

Recognized(line) == ParseTable[line].type # "none"
RecognizedId(id) == Recognized(Corpus[id])

\* C9 as stated: removing every Unrecognized line of the text does not
\* change what parse_text returns.
C9_UnrecognizedLinesRemovable ==
    pc = "done" =>
        LET other == ParseText(SelectSeq(text, RecognizedId))
        IN  other.pc = "done" /\ other.records = records

\* the positions of the Unrecognized lines of text t that stand between its
\* first and its last non-blank line
InteriorUnrecognized(t) ==
    LET nonblank == {i \in 1..Len(t) : ~IsBlank(Corpus[t[i]])}
    IN  IF nonblank = {} THEN {}
        ELSE {i \in (SetMin(nonblank) + 1)..(SetMax(nonblank) - 1) :
                 ~RecognizedId(t[i])}

\* t without the lines at the positions in drop
Without(t, drop) ==
    LET F[i \in 0..Len(t)] ==
            IF i = 0 THEN <<>>
            ELSE IF i \in drop THEN F[i - 1] ELSE Append(F[i - 1], t[i])
    IN  F[Len(t)]

\* C9 amended: at every point of the pass, records and hook_cache are those
\* of the pass over the recognized lines alone among the lines of
\* text.strip().splitlines() processed so far: an Unrecognized line appends
\* nothing and leaves the table as it is, and parse_text returns the same
\* with or without any of the Unrecognized lines that stand between the
\* first and the last non-blank line of the text.
C9_UnrecognizedLinesFrame ==
    LET seen == SelectSeq(SubSeq(Lines, 1, NProcessed), Recognized)
        other == RunLines(seen, Len(seen))
    IN  /\ other.records = records
        /\ other.hook_cache = hook_cache
        /\ pc = "done" =>
              /\ other.pc = "loop"
              /\ \A drop \in SUBSET InteriorUnrecognized(text) :
                     ParseText(Without(text, drop)) =
                         [pc |-> "done", records |-> records,
                          hook_cache |-> hook_cache]

\* C9 witness: parse_text has returned the lost record of a Hook that an
\* Unrecognized line separates from its Lost line.
C9_Witness ==
    /\ pc = "done"
    /\ NProcessed = 3
    /\ Ev(1).type = "hook"
    /\ Ev(2).type = "none"
    /\ Ev(3).type = "lost"
    /\ Ev(3).rod = Ev(1).rod
    /\ Len(records) = 1
    /\ records[1].time = Ev(1).time

\* the capture grammar with nothing after 鱼饵:
CaptureEmptyBaitPattern ==
    SubSeq(CAPTURE_PATTERN, 1, Len(CAPTURE_PATTERN) - 2) \o <<EndOfString>>

\* the rod of a line that is a Capture line with an empty bait field, 0 for
\* any other line
EmptyBaitRod(line) ==
    IF SepPositions(line) = {} THEN 0
    ELSE LET content == SubSeq(line, SetMin(SepPositions(line)) + 3, Len(line))
             match == RxSearch(CaptureEmptyBaitPattern, content)
         IN  IF tHook \notin Range(content) /\ match.ok THEN IntOf(match.caps[1])
             ELSE 0

EmptyBaitTable == [line \in LineForms |-> EmptyBaitRod(line)]

\* C10 as stated: a Capture line with an empty bait field appends a capture
\* record with bait "" and leaves no pending hook for its rod.
C10_EmptyBaitIsCapture ==
    [][ (InLoop /\ EmptyBaitTable[Lines[line_idx]] > 0)
        => /\ AppendsOne(records, records')
           /\ LastRecord(records').record_type = "capture"
           /\ LastRecord(records').rod = EmptyBaitTable[Lines[line_idx]]
           /\ LastRecord(records').bait = <<>>
           /\ EmptyBaitTable[Lines[line_idx]] \notin DOMAIN hook_cache' ]_vars

---------------------------------------------------------------------------
(* Rod slots of any size                                                   *)

\* the hook grammar with the rod slot read as a whole number, (\d+)
HookAnySlotPattern ==
    << Lit(tHook), Lit(tBangRod), GreedyPlus(Digits, 1) >>
        \o SubSeq(HOOK_PATTERN, 4, Len(HOOK_PATTERN))

\* the lost grammar with the rod slot read as a whole number, (\d+)
LostAnySlotPattern == << Lit(tLost), Lit(tBangRod), GreedyPlus(Digits, 1) >>

\* the kind and the slot that a well-formed Hook or Lost line names, the
\* slot being every digit written after 鱼竿：
NamedSlot(line) ==
    IF SepPositions(line) = {} THEN [kind |-> "none", slot |-> 0]
    ELSE LET content == SubSeq(line, SetMin(SepPositions(line)) + 3, Len(line))
             hook == RxSearch(HookAnySlotPattern, content)
             lost == RxSearch(LostAnySlotPattern, content)
         IN  IF hook.ok THEN [kind |-> "hook", slot |-> IntOf(hook.caps[1])]
             ELSE IF lost.ok /\ tHook \notin Range(content)
                                /\ tCapture \notin Range(content)
             THEN [kind |-> "lost", slot |-> IntOf(lost.caps[1])]
             ELSE [kind |-> "none", slot |-> 0]

NamedSlotTable == [line \in LineForms |-> NamedSlot(line)]

\* C11 as stated: a well-formed Hook line naming slot n (whose weight
\* converts) leaves a pending hook with rod n under key n, and a well-formed
\* Lost line naming slot n appends one lost record with rod n and takes
\* away the pending hook of slot n and of no other slot; this for every n,
\* also n >= 10.
C11_AnySlotAccepted ==
    [][ (InLoop /\ NamedSlotTable[Lines[line_idx]].kind # "none"
                /\ Ev(line_idx).type # "raise")
        => LET n == NamedSlotTable[Lines[line_idx]].slot
               kind == NamedSlotTable[Lines[line_idx]].kind
           IN  /\ \A r \in DOMAIN hook_cache \ {n} :
                      r \in DOMAIN hook_cache' /\ hook_cache'[r] = hook_cache[r]
               /\ kind = "hook" =>
                      /\ n \in DOMAIN hook_cache'
                      /\ hook_cache'[n].rod = n
                      /\ records' = records
               /\ kind = "lost" =>
                      /\ n \notin DOMAIN hook_cache'
                      /\ AppendsOne(records, records')
                      /\ LastRecord(records').record_type = "lost"
                      /\ LastRecord(records').rod = n ]_vars

\* C15: every "lost" record of the output, and so the record of every Lost
\* line processed, has bait 脱钩, exp 0 and cost "", whether a hook was
\* pending or not and whatever Capture lines came before it on its rod.
C15_LostRecordFields ==
    /\ \A i \in 1..Len(records) :
           records[i].record_type = "lost" =>
               /\ records[i].bait = <<tTuoGou>>
               /\ records[i].exp = 0
               /\ records[i].cost = NoValue
    /\ \A j \in 1..NProcessed :
           Ev(j).type = "lost" =>
               /\ RecordIndexOf(j) <= Len(records)
               /\ records[RecordIndexOf(j)].record_type = "lost"
               /\ records[RecordIndexOf(j)].bait = <<tTuoGou>>
               /\ records[RecordIndexOf(j)].exp = 0
               /\ records[RecordIndexOf(j)].cost = NoValue

\* C15 witness: a Capture with exp and cost, then a Hook and a Lost line of
\* the same rod have been processed; the lost record built from the hook
\* follows the capture record and has bait 脱钩, exp 0, cost "".
C15_Witness ==
    /\ NProcessed = 3
    /\ Ev(1).type = "capture"
    /\ Ev(2).type = "hook"
    /\ Ev(3).type = "lost"
    /\ Ev(1).rod = Ev(3).rod
    /\ Ev(2).rod = Ev(3).rod
    /\ Len(records) = 2
    /\ records[1].exp > 0
    /\ records[1].cost # NoValue
    /\ records[2].record_type = "lost"
    /\ records[2].fish = Ev(2).fish
    /\ records[2].bait = <<tTuoGou>>
    /\ records[2].exp = 0
    /\ records[2].cost = NoValue

---------------------------------------------------------------------------
(* Weights, read off the line token by token                               *)

RECURSIVE Pow10(_)
Pow10(n) == IF n = 0 THEN 1 ELSE 10 * Pow10(n - 1)

\* x and y are the same number
SameNumber(x, y) == x.m * Pow10(y.d) = y.m * Pow10(x.d)

GramUnits == {tG, tKe}
KilogramUnits == {tKg, tGongjin}

\* the weight a Hook or Capture line writes, in kilograms: the digits (with
\* at most one dot) that stand right before its first unit token, divided
\* by 1000 when the unit is a gram unit
WrittenKg(line) ==
    LET units == {i \in 1..Len(line) : line[i] \in GramUnits \cup KilogramUnits}
        u == SetMin(units)
        from == SetMin({i \in 1..u : \A k \in i..(u - 1) : line[k] \in DigitOrDot})
        value == SubSeq(line, from, u - 1)
        digits == SelectSeq(value, LAMBDA tok : tok \in Digits)
        dots == DotPositions(value)
        fraction == IF dots = {} THEN 0 ELSE Len(value) - SetMin(dots)
    IN  [m |-> IntOf(digits),
         d |-> IF line[u] \in GramUnits THEN fraction + 3 ELSE fraction]

WrittenKgTable ==
    [line \in {l \in LineForms : ParseTable[l].type \in {"hook", "capture"}}
        |-> WrittenKg(line)]

\* C17: the weight of every record is in kilograms: the record of a Capture
\* line has the weight written on the line, divided by 1000 if its unit is
\* 克 (g for a Hook line) and as written if it is 公斤 (kg); the lost record
\* of a pending Hook has that Hook's weight, converted the same way; the
\* placeholder has 0; and no weight is negative.
C17_WeightsInKilograms ==
    /\ \A i \in 1..Len(records) : records[i].weight.m >= 0
    /\ \A j \in 1..NProcessed :
           (Finalizing(j) /\ RecordIndexOf(j) <= Len(records)) =>
               LET rec == records[RecordIndexOf(j)]
                   r == Ev(j).rod
               IN  IF Ev(j).type = "capture"
                   THEN SameNumber(rec.weight, WrittenKgTable[Lines[j]])
                   ELSE IF HookPending(r, j)
                   THEN SameNumber(rec.weight,
                                   WrittenKgTable[Lines[PrevIndex(r, j)]])
                   ELSE rec.weight = Zero

\* C17 witness: "1800克" captured, then a Hook writing "500g" was lost: the
\* records have weights 1.8 and 0.5.
C17_Witness ==
    /\ NProcessed = 3
    /\ Ev(1).type = "capture"
    /\ Ev(2).type = "hook"
    /\ Ev(3).type = "lost"
    /\ Ev(2).rod = Ev(3).rod
    /\ SubSeq(Lines[2], Len(Lines[2]) - 3, Len(Lines[2])) = <<"5", "0", "0", tG>>
    /\ Len(records) = 2
    /\ records[1].weight = [m |-> 18, d |-> 1]
    /\ records[2].weight = [m |-> 5, d |-> 1]

---------------------------------------------------------------------------
(* Fish names, read off the line token by token.  A token of a name is one *)
(* character of the log.                                                   *)

\* the name a Hook or Capture line writes between 【 and the first 】
WrittenName(line) ==
    LET open == SetMin({i \in 1..Len(line) : line[i] \in {tFishInfo, tCommaOpen}})
        close == SetMin({i \in (open + 2)..Len(line) : line[i] = tClose})
    IN  SubSeq(line, open + 1, close - 1)

WrittenNameTable ==
    [line \in {l \in LineForms : ParseTable[l].type \in {"hook", "capture"}}
        |-> WrittenName(line)]

\* the name as the claim has it in a record
CutToTen(name) ==
    IF Len(name) >= 11 THEN [i \in 1..10 |-> name[i]] ELSE name

\* C18: no record has a fish name of more than 10 characters: the record of
\* a Capture line, and the lost record of a pending Hook, has the first 10
\* characters of the name written on the Capture (Hook) line if that name
\* has 11 or more, and the name as written if it has 10 or fewer; the
\* pending hook itself already holds the cut name.
C18_FishNameAtMostTen ==
    /\ \A i \in 1..Len(records) : Len(records[i].fish) <= 10
    /\ \A r \in DOMAIN hook_cache : Len(hook_cache[r].fish) <= 10
    /\ \A j \in 1..NProcessed :
           (Finalizing(j) /\ RecordIndexOf(j) <= Len(records)) =>
               LET rec == records[RecordIndexOf(j)]
                   r == Ev(j).rod
               IN  IF Ev(j).type = "capture"
                   THEN rec.fish = CutToTen(WrittenNameTable[Lines[j]])
                   ELSE HookPending(r, j) =>
                            rec.fish = CutToTen(WrittenNameTable[Lines[PrevIndex(r, j)]])

\* C18 witness: a Capture line writing a name of 2 characters, then a Hook
\* writing a name of 11 and its Lost line have been processed: the capture
\* record has the name as written, the lost record its first 10 characters.
C18_Witness ==
    /\ NProcessed = 3
    /\ Ev(1).type = "capture"
    /\ Ev(2).type = "hook"
    /\ Ev(3).type = "lost"
    /\ Ev(2).rod = Ev(3).rod
    /\ Len(WrittenNameTable[Lines[1]]) = 2
    /\ Len(WrittenNameTable[Lines[2]]) = 11
    /\ Len(records) = 2
    /\ records[1].fish = WrittenNameTable[Lines[1]]
    /\ records[2].record_type = "lost"
    /\ Len(records[2].fish) = 10
    /\ records[2].fish = SubSeq(WrittenNameTable[Lines[2]], 1, 10)

---------------------------------------------------------------------------
(* Marker priority                                                         *)

\* the part of a line after its first " : ", <<>> if there is none
ContentOf(line) ==
    IF SepPositions(line) = {} THEN <<>>
    ELSE SubSeq(line, SetMin(SepPositions(line)) + 3, Len(line))

\* which grammars match the content of the line, and which markers it has
GrammarFacts(line) ==
    LET content == ContentOf(line)
    IN  [hookMarker |-> tHook \in Range(content),
         captureMarker |-> tCapture \in Range(content),
         lostMarker |-> tLost \in Range(content),
         hookMatches |-> RxSearch(HOOK_PATTERN, content).ok,
         captureMatches |-> RxSearch(CAPTURE_PATTERN, content).ok,
         lostMatches |-> RxSearch(LOST_PATTERN, content).ok]

GrammarFactsTable == [line \in LineForms |-> GrammarFacts(line)]

\* the claim of C19 for one line and the result of parse_line_fast on it
PriorityHolds(line, result) ==
    LET f == GrammarFactsTable[line]
    IN  /\ f.hookMarker =>
              /\ result.type \in {"hook", "none"}
              /\ ~f.hookMatches => result.type = "none"
        /\ (~f.hookMarker /\ f.captureMarker) =>
              /\ result.type \in {"capture", "none"}
              /\ ~f.captureMatches => result.type = "none"
        /\ (~f.hookMarker /\ ~f.captureMarker /\ f.lostMarker) =>
              /\ result.type \in {"lost", "none"}
              /\ ~f.lostMatches => result.type = "none"

\* C19 as stated: whenever parse_text hands a line to parse_line_fast, a
\* content with the hook marker is classified Hook or Unrecognized; a
\* content without the hook marker but with the capture marker is
\* classified Capture or Unrecognized; and the result is Unrecognized when
\* the grammar selected by the first marker in the order hook, capture,
\* lost does not match, whatever other grammar matches.
C19_MarkerPriority ==
    [][ InLoop => PriorityHolds(Lines[line_idx], Ev(line_idx)) ]_vars

\* line k is a Capture or Lost line that found a Hook of its rod pending
ConsumesHook(k) == Finalizing(k) /\ HookPending(Ev(k).rod, k)

\* C20: once a Capture or Lost line of rod r has been processed and no Hook
\* of r since, nothing is pending for r; and a Lost line of r whose previous
\* event of r is a Capture or Lost line that consumed a Hook yields the
\* placeholder, with the Lost line's own time, fish ？ and weight 0, so
\* that among the Lost lines of r that follow a Hook of r before the next
\* Hook of r, at most one yields a record with that Hook's time.
C20_HookConsumedOnce ==
    /\ \A j \in 1..NProcessed :
           (Finalizing(j) /\ PrevIndex(Ev(j).rod, line_idx) = j)
               => Ev(j).rod \notin DOMAIN hook_cache
    /\ \A j \in 1..NProcessed :
           LET r == Ev(j).rod
               k == PrevIndex(r, j)
           IN  (Ev(j).type = "lost" /\ k > 0 /\ ConsumesHook(k)) =>
                   /\ RecordIndexOf(j) <= Len(records)
                   /\ records[RecordIndexOf(j)].record_type = "lost"
                   /\ records[RecordIndexOf(j)].rod = r
                   /\ records[RecordIndexOf(j)].time = Ev(j).time
                   /\ records[RecordIndexOf(j)].fish = <<tFullwidthQuestion>>
                   /\ records[RecordIndexOf(j)].weight = Zero
    /\ \A h \in 1..NProcessed :
           Ev(h).type = "hook" =>
               Cardinality({j \in (h + 1)..NProcessed :
                               /\ Ev(j).type = "lost"
                               /\ Ev(j).rod = Ev(h).rod
                               /\ \A k \in (h + 1)..(j - 1) :
                                      ~(Ev(k).type = "hook" /\ Ev(k).rod = Ev(h).rod)
                               /\ RecordIndexOf(j) <= Len(records)
                               /\ records[RecordIndexOf(j)].time = Ev(h).time}) <= 1

\* C20 witness: a Hook and two Lost lines of one rod have been processed:
\* the first lost record has the Hook's time and fish, the second is the
\* placeholder with the second Lost line's time.
C20_Witness ==
    /\ NProcessed = 3
    /\ Ev(1).type = "hook"
    /\ Ev(2).type = "lost"
    /\ Ev(3).type = "lost"
    /\ Ev(1).rod = Ev(2).rod
    /\ Ev(2).rod = Ev(3).rod
    /\ Ev(2).time # Ev(3).time
    /\ Len(records) = 2
    /\ records[1].time = Ev(1).time
    /\ records[1].fish = Ev(1).fish
    /\ records[2].time = Ev(3).time
    /\ records[2].fish = <<tFullwidthQuestion>>
    /\ records[2].weight = Zero
    /\ hook_cache = <<>>

---------------------------------------------------------------------------
(* parse_text called again and again.  hook_cache and records are locals   *)
(* of the call (lines 152-153): every call starts with both empty.         *)

\* the lines the texts of repeated calls are made of
CallLineIds == {1, 3, 4, 6, 7, 8, 10}

CallTexts == UNION {[1..n -> CallLineIds] : n \in 0..MaxLines}

InitCalls ==
    /\ text \in CallTexts
    /\ pc = "loop"
    /\ line_idx = 1
    /\ records = <<>>
    /\ hook_cache = <<>>
    /\ prev_hook_cache = <<>>
    /\ RecordCacheInit(CACHE_SIZE)
    /\ AnalyzerInit

\* mutant: hook_cache outlives the call, as a class attribute would
ParseTextAgain_SharedHookCache ==
    /\ pc \in {"done", "raised"}
    /\ text' \in CallTexts
    /\ pc' = "loop"
    /\ line_idx' = 1
    /\ records' = <<>>
    /\ prev_hook_cache' = hook_cache
    /\ UNCHANGED <<hook_cache, cache_vars, app_vars>>

\* the previous call has returned or raised; parse_text is entered again:
\* records = [], hook_cache = {}
ParseTextAgain ==
    /\ pc \in {"done", "raised"}
    /\ text' \in CallTexts
    /\ pc' = "loop"
    /\ line_idx' = 1
    /\ records' = <<>>
    /\ hook_cache' = <<>>
    /\ prev_hook_cache' = hook_cache
    /\ UNCHANGED <<cache_vars, app_vars>>

NextCalls ==
    \/ LineRaises
    \/ LineSkipped
    \/ LineHook
    \/ LineCapture
    \/ LineLostWithHook
    \/ LineLostNoHook
    \/ Return
    \/ ParseTextAgain

SpecCalls == InitCalls /\ [][NextCalls]_vars

\* C12: whatever calls came before, a call of parse_text returns for its
\* text what a first call returns for it, so the same text gives the same
\* records again; the pending hooks of the call are hooks of its own text;
\* and a Lost line of a rod with no Hook before it in this text yields the
\* placeholder, also when the previous call left a hook of that rod pending.
C12_ResultDependsOnTextOnly ==
    /\ pc = "done" =>
           /\ ParseText(text).pc = "done"
           /\ records = ParseText(text).records
    /\ pc = "raised" => ParseText(text).pc = "raised"
    /\ \A r \in DOMAIN hook_cache : HookPending(r, line_idx)
    /\ \A j \in 1..NProcessed :
           (Ev(j).type = "lost" /\ ~HookPending(Ev(j).rod, j)) =>
               /\ RecordIndexOf(j) <= Len(records)
               /\ records[RecordIndexOf(j)].time = Ev(j).time
               /\ records[RecordIndexOf(j)].fish = <<tFullwidthQuestion>>
               /\ records[RecordIndexOf(j)].weight = Zero

\* C12 witness: the previous call ended with a hook of rod r pending, and
\* this call, whose text begins with a Lost line of r, has returned the
\* placeholder record for it.
C12_Witness ==
    /\ pc = "done"
    /\ NProcessed >= 1
    /\ Ev(1).type = "lost"
    /\ Ev(1).rod \in DOMAIN prev_hook_cache
    /\ records # <<>>
    /\ records[1].time = Ev(1).time
    /\ records[1].time # prev_hook_cache[Ev(1).rod].time
    /\ records[1].fish = <<tFullwidthQuestion>>

---------------------------------------------------------------------------
(* RecordCache.  A Python dict keeps its keys in insertion order; assigning *)
(* to a key that is present keeps the key's place.  self.cache is a         *)
(* sequence of [key, records] in that order.                                *)

MaxSize == 2                     \* the largest max_size
MaxKeys == 3                     \* the number of different keys used

\* no parse_text call is in progress
ParserIdle ==
    /\ text = <<>>
    /\ pc = "idle"
    /\ line_idx = 1
    /\ records = <<>>
    /\ hook_cache = <<>>
    /\ prev_hook_cache = <<>>

\* cache_key = str(hash(text)) of the stripped text: the lines of the
\* stripped text stand for it (two different texts have different keys)
KeyOf(raw) == StripSplitLines(raw)

CacheKeys == {KeyOf(<<Corpus[i]>>) : i \in 1..MaxKeys}
CacheValues == {ParseText(<<4>>).records, ParseText(<<6>>).records}

KeysOf(c) == {c[i].key : i \in 1..Len(c)}

\* self.cache.get(key): found = FALSE stands for None
Lookup(c, key) ==
    IF key \in KeysOf(c)
    THEN [found |-> TRUE,
          records |-> c[CHOOSE i \in 1..Len(c) : c[i].key = key].records]
    ELSE [found |-> FALSE, records |-> <<>>]

\* self.cache[key] = records
Assign(c, key, recs) ==
    IF key \in KeysOf(c)
    THEN [i \in 1..Len(c) |->
             IF c[i].key = key THEN [key |-> key, records |-> recs] ELSE c[i]]
    ELSE Append(c, [key |-> key, records |-> recs])

\* mutant: set never removes a key
CacheSet_NoEviction(c, size, key, recs) == Assign(c, key, recs)

\* RecordCache.set: self.cache afterwards (size >= 1)
CacheSet(c, size, key, recs) ==
    IF Len(c) >= size THEN Assign(Tail(c), key, recs) ELSE Assign(c, key, recs)

InitCache ==
    /\ ParserIdle
    /\ cache = <<>>
    /\ max_size \in 1..MaxSize
    /\ last_call = NoCall
    /\ AnalyzerInit

\* cache.set(key, recs)
SetCall ==
    \E key \in CacheKeys, recs \in CacheValues :
        /\ cache' = CacheSet(cache, max_size, key, recs)
        /\ last_call' = [op |-> "set", key |-> key, records |-> recs]
        /\ UNCHANGED <<max_size, parse_vars, app_vars>>

\* cache.get(key)
GetCall ==
    \E key \in CacheKeys :
        /\ last_call' = [op |-> "get", key |-> key,
                         found |-> Lookup(cache, key).found,
                         records |-> Lookup(cache, key).records]
        /\ UNCHANGED <<cache, max_size, parse_vars, app_vars>>

\* cache.clear()
ClearCall ==
    /\ cache' = <<>>
    /\ last_call' = [op |-> "clear"]
    /\ UNCHANGED <<max_size, parse_vars, app_vars>>

NextCache == SetCall \/ GetCall \/ ClearCall

SpecCache == InitCache /\ [][NextCache]_vars

\* the key that the next eviction removes: the first in insertion order
DroppedNext(c) == c[1].key

\* C13 as stated: set of a key that is not present, on a cache that holds
\* max_size keys, removes exactly the key inserted earliest and adds the
\* new one; a get call, and a set call for a key that is present, leave the
\* keys and the key to be dropped next as they are.
C13_FifoEviction ==
    [][ LET call == last_call'
        IN  /\ (call.op = "set" /\ call.key \notin KeysOf(cache)
                               /\ Len(cache) = max_size)
                => /\ KeysOf(cache') =
                          (KeysOf(cache) \ {DroppedNext(cache)}) \cup {call.key}
                   /\ Len(cache') = max_size
            /\ (cache # <<>> /\ (call.op = "get" \/
                                  (call.op = "set" /\ call.key \in KeysOf(cache))))
                => /\ KeysOf(cache') = KeysOf(cache)
                   /\ DroppedNext(cache') = DroppedNext(cache) ]_vars

\* C14: self.cache never holds more than max_size keys (max_size >= 1),
\* each key once; right after set(key, records) the cache gives those
\* records for the key; and what get returned is what the cache holds.
C14_BoundedAndReadable ==
    /\ max_size >= 1
    /\ Len(cache) <= max_size
    /\ Cardinality(KeysOf(cache)) = Len(cache)
    /\ last_call.op = "set" =>
           Lookup(cache, last_call.key) =
               [found |-> TRUE, records |-> last_call.records]
    /\ last_call.op = "get" =>
           Lookup(cache, last_call.key) =
               [found |-> last_call.found, records |-> last_call.records]
    /\ last_call.op = "clear" => cache = <<>>

\* C14 witness: a full cache of two keys, the last call having set the key
\* that stands last, after the key set first was removed.
C14_Witness ==
    /\ max_size = 2
    /\ Len(cache) = 2
    /\ last_call.op = "set"
    /\ cache[2] = [key |-> last_call.key, records |-> last_call.records]
    /\ KeyOf(<<Corpus[1]>>) \notin KeysOf(cache)

---------------------------------------------------------------------------
(* FishingLogAnalyzer.  The window is modelled by what it shows: `table`   *)
(* is [header, content, rows], content being "empty", "no_rod" (the        *)
(* message asking for a rod to be selected), "summary" or "rows"; rows are *)
(* the records shown (for the summary: the records the figures are         *)
(* computed from).  A handler is one step: the message put up while        *)
(* parse_text runs is gone when analyze returns.  The render_count and     *)
(* gc.collect bookkeeping changes nothing visible.                         *)

\* a line of two blanks
BlankLine == <<SP, SP>>

\* the texts pasted into the input box, as raw lines; Text.get always ends
\* in a newline, which strip removes
AppInputs ==
    { <<>>,
      <<BlankLine, EmptyLine>>,
      <<HookRod1, LostRod1, HookRod2, LostRod2, CaptureRod1, CaptureRod2>>,
      <<CaptureRod2, LostRod1>>,
      <<LostRod1>>,
      <<Garbage>>,
      <<CaptureRod1, HookBadWeight>> }

\* self.input_box.get("1.0", tk.END).strip() is empty
StrippedEmpty(raw) == StripSplitLines(raw) = <<>>

IsLost(record) == record.record_type = "lost"        \* FishingRecord.is_lost
NotLost(record) == ~IsLost(record)

\* get_selected_rods
SelectedRods == {rod \in RodBoxes : rod_vars[rod]}

\* x stands before y in a sort by weight, ascending
LessWeight(x, y) == x.weight.m * Pow10(y.weight.d) < y.weight.m * Pow10(x.weight.d)
MoreWeight(x, y) == LessWeight(y, x)
LessExp(x, y) == x.exp < y.exp
MoreExp(x, y) == LessExp(y, x)

\* x put into a sorted list behind every element it does not stand before
InsertOne(sorted, x, Before(_, _)) ==
    LET later == {i \in 1..Len(sorted) : Before(x, sorted[i])}
        at == IF later = {} THEN Len(sorted) + 1 ELSE SetMin(later)
    IN  SubSeq(sorted, 1, at - 1) \o <<x>> \o SubSeq(sorted, at, Len(sorted))

\* list.sort: stable, also with reverse=True
SortedBy(s, Before(_, _)) ==
    LET F[i \in 0..Len(s)] ==
            IF i = 0 THEN <<>> ELSE InsertOne(F[i - 1], s[i], Before)
    IN  F[Len(s)]

\* .sort(key=lambda x: x.weight, reverse=reverse)
SortedByWeight(s, reverse) ==
    IF reverse THEN SortedBy(s, MoreWeight) ELSE SortedBy(s, LessWeight)

\* .sort(key=lambda x: x.exp, reverse=reverse)
SortedByExp(s, reverse) ==
    IF reverse THEN SortedBy(s, MoreExp) ELSE SortedBy(s, LessExp)

\* the records of recs whose rod is selected
OfRods(recs, rods) == SelectSeq(recs, LAMBDA r : r.rod \in rods)

\* _render_data for current_records = recs in view `view`, with the rods
\* `rods` selected and the header as `header` before
RenderData(recs, view, header, rods) ==
    IF rods = {}
    THEN [header |-> header, content |-> "no_rod", rows |-> <<>>]
    ELSE [header |-> IF view # "summary" THEN TRUE ELSE header,
          content |-> "rows",
          rows |-> OfRods(recs, rods)]

\* what show_summary puts up for all_records = recs
SummaryOf(recs, rods) ==
    IF rods = {}
    THEN [header |-> FALSE, content |-> "no_rod", rows |-> <<>>]
    ELSE [header |-> FALSE, content |-> "summary", rows |-> OfRods(recs, rods)]

\* the sort that _apply_current_sort applies to the list recs in view `view`
CurrentSort(recs, view) ==
    IF sort_state.weight THEN SortedByWeight(recs, TRUE)
    ELSE IF view = "detail" /\ sort_state.exp THEN SortedByExp(recs, TRUE)
    ELSE recs

\* parse_text is a pure function: its result on every input, computed once
AnalysisTable == [raw \in AppInputs |-> ParseRawLines(raw)]

\* the rods whose checkbox the user clicks
ClickedRods == {1, 2}

InitApp ==
    /\ ParserIdle
    /\ RecordCacheInit(CACHE_SIZE)
    /\ AnalyzerInit

\* the user replaces the content of the input box
PasteInput ==
    /\ running
    /\ input_box' \in AppInputs \ {input_box}
    /\ UNCHANGED <<all_records, current_records, current_view, sort_state,
                   rod_vars, table, dialog, parser_called, running>>
    /\ UNCHANGED <<parse_vars, cache_vars>>

\* clear_input
ClearInput ==
    /\ running
    /\ input_box' = <<>>
    /\ dialog' = "none"
    /\ parser_called' = FALSE
    /\ UNCHANGED <<all_records, current_records, current_view, sort_state,
                   rod_vars, table, running>>
    /\ UNCHANGED <<parse_vars, cache_vars>>

\* mutant: the empty-input test is missing, parse_text runs on the empty
\* text and analyze goes on as for any text without records
Analyze_NoEmptyCheck ==
    /\ running
    /\ LET result == AnalysisTable[input_box]
       IN  /\ parser_called' = TRUE
           /\ current_view' = "summary"
           /\ IF result.pc = "raised"
              THEN /\ dialog' = "error"
                   /\ table' = SummaryOf(all_records, SelectedRods)
                   /\ UNCHANGED <<all_records, cache, last_call>>
              ELSE /\ all_records' = result.records
                   /\ table' = SummaryOf(result.records, SelectedRods)
                   /\ IF result.records = <<>>
                      THEN /\ dialog' = "info_none"
                           /\ UNCHANGED <<cache, last_call>>
                      ELSE /\ dialog' = "info_success"
                           /\ cache' = CacheSet(cache, max_size, KeyOf(input_box),
                                                result.records)
                           /\ last_call' = [op |-> "set", key |-> KeyOf(input_box),
                                            records |-> result.records]
    /\ UNCHANGED <<input_box, current_records, sort_state, rod_vars, running>>
    /\ UNCHANGED <<parse_vars, max_size>>

\* mutant: analyze does not call show_summary, the view on display stays
Analyze_KeepsView ==
    /\ running
    /\ IF StrippedEmpty(input_box)
       THEN /\ dialog' = "warning"
            /\ parser_called' = FALSE
            /\ UNCHANGED <<all_records, cache, last_call>>
       ELSE LET result == AnalysisTable[input_box]
            IN  /\ parser_called' = TRUE
                /\ IF result.pc = "raised"
                   THEN /\ dialog' = "error"
                        /\ UNCHANGED <<all_records, cache, last_call>>
                   ELSE /\ all_records' = result.records
                        /\ IF result.records = <<>>
                           THEN /\ dialog' = "info_none"
                                /\ UNCHANGED <<cache, last_call>>
                           ELSE /\ dialog' = "info_success"
                                /\ cache' = CacheSet(cache, max_size,
                                                     KeyOf(input_box), result.records)
                                /\ last_call' = [op |-> "set", key |-> KeyOf(input_box),
                                                 records |-> result.records]
    /\ UNCHANGED <<input_box, current_records, current_view, table, sort_state,
                   rod_vars, running>>
    /\ UNCHANGED <<parse_vars, max_size>>

\* analyze
Analyze ==
    /\ running
    /\ IF StrippedEmpty(input_box)
       THEN \* showwarning, return
            /\ dialog' = "warning"
            /\ parser_called' = FALSE
            /\ UNCHANGED <<all_records, current_view, table, cache, last_call>>
       ELSE LET result == AnalysisTable[input_box]
            IN  /\ parser_called' = TRUE
                /\ current_view' = "summary"
                /\ IF result.pc = "raised"
                   THEN \* except: showerror, show_summary
                        /\ dialog' = "error"
                        /\ table' = SummaryOf(all_records, SelectedRods)
                        /\ UNCHANGED <<all_records, cache, last_call>>
                   ELSE /\ all_records' = result.records
                        /\ table' = SummaryOf(result.records, SelectedRods)
                        /\ IF result.records = <<>>
                           THEN \* showinfo, show_summary, return
                                /\ dialog' = "info_none"
                                /\ UNCHANGED <<cache, last_call>>
                           ELSE \* cache.set, show_summary, showinfo
                                /\ dialog' = "info_success"
                                /\ cache' = CacheSet(cache, max_size,
                                                     KeyOf(input_box), result.records)
                                /\ last_call' = [op |-> "set", key |-> KeyOf(input_box),
                                                 records |-> result.records]
    /\ UNCHANGED <<input_box, current_records, sort_state, rod_vars, running>>
    /\ UNCHANGED <<parse_vars, max_size>>

\* show_detail
ShowDetail ==
    /\ running
    /\ parser_called' = FALSE
    /\ IF all_records = <<>>
       THEN /\ dialog' = "warning"
            /\ UNCHANGED <<current_view, current_records, table>>
       ELSE LET recs == SelectSeq(all_records, NotLost)
            IN  /\ dialog' = "none"
                /\ current_view' = "detail"
                /\ current_records' = CurrentSort(recs, "detail")
                /\ table' = IF recs = <<>> THEN table
                            ELSE RenderData(CurrentSort(recs, "detail"), "detail",
                                            table.header, SelectedRods)
    /\ UNCHANGED <<input_box, all_records, sort_state, rod_vars, running>>
    /\ UNCHANGED <<parse_vars, cache_vars>>

\* show_lost
ShowLost ==
    /\ running
    /\ parser_called' = FALSE
    /\ IF all_records = <<>>
       THEN /\ dialog' = "warning"
            /\ UNCHANGED <<current_view, current_records, table>>
       ELSE LET recs == SelectSeq(all_records, IsLost)
                sorted == IF sort_state.weight THEN SortedByWeight(recs, TRUE)
                          ELSE recs
            IN  /\ dialog' = "none"
                /\ current_view' = "lost"
                /\ current_records' = sorted
                /\ table' = RenderData(sorted, "lost", table.header, SelectedRods)
    /\ UNCHANGED <<input_box, all_records, sort_state, rod_vars, running>>
    /\ UNCHANGED <<parse_vars, cache_vars>>

\* show_summary
ShowSummary ==
    /\ running
    /\ parser_called' = FALSE
    /\ dialog' = "none"
    /\ current_view' = "summary"
    /\ table' = SummaryOf(all_records, SelectedRods)
    /\ UNCHANGED <<input_box, all_records, current_records, sort_state,
                   rod_vars, running>>
    /\ UNCHANGED <<parse_vars, cache_vars>>

\* mutant: sort_by_weight leaves sort_state[EXP] as it is
SortByWeight_KeepsExp ==
    /\ running
    /\ parser_called' = FALSE
    /\ dialog' = "none"
    /\ IF current_records = <<>> \/ current_view = "summary"
       THEN UNCHANGED <<sort_state, current_records, table>>
       ELSE /\ sort_state' = [sort_state EXCEPT !.weight = ~sort_state.weight]
            /\ current_records' = SortedByWeight(current_records, ~sort_state.weight)
            /\ table' = RenderData(current_records', current_view, table.header,
                                   SelectedRods)
    /\ UNCHANGED <<input_box, all_records, current_view, rod_vars, running>>
    /\ UNCHANGED <<parse_vars, cache_vars>>

\* sort_by_weight
SortByWeight ==
    /\ running
    /\ parser_called' = FALSE
    /\ dialog' = "none"
    /\ IF current_records = <<>> \/ current_view = "summary"
       THEN UNCHANGED <<sort_state, current_records, table>>
       ELSE /\ sort_state' = [weight |-> ~sort_state.weight, exp |-> FALSE]
            /\ current_records' = SortedByWeight(current_records, ~sort_state.weight)
            /\ table' = RenderData(current_records', current_view, table.header,
                                   SelectedRods)
    /\ UNCHANGED <<input_box, all_records, current_view, rod_vars, running>>
    /\ UNCHANGED <<parse_vars, cache_vars>>

\* sort_by_exp
SortByExp ==
    /\ running
    /\ parser_called' = FALSE
    /\ dialog' = "none"
    /\ IF current_records = <<>> \/ current_view # "detail"
       THEN UNCHANGED <<sort_state, current_records, table>>
       ELSE /\ sort_state' = [weight |-> FALSE, exp |-> ~sort_state.exp]
            /\ current_records' = SortedByExp(current_records, ~sort_state.exp)
            /\ table' = RenderData(current_records', current_view, table.header,
                                   SelectedRods)
    /\ UNCHANGED <<input_box, all_records, current_view, rod_vars, running>>
    /\ UNCHANGED <<parse_vars, cache_vars>>

\* a rod checkbox is clicked: its variable flips, then _apply_current_sort
ToggleRod ==
    \E rod \in ClickedRods :
        /\ running
        /\ parser_called' = FALSE
        /\ dialog' = "none"
        /\ rod_vars' = [rod_vars EXCEPT ![rod] = ~rod_vars[rod]]
        /\ IF current_records = <<>> \/ current_view = "summary"
           THEN UNCHANGED <<current_records, table>>
           ELSE /\ current_records' = CurrentSort(current_records, current_view)
                /\ table' = RenderData(current_records', current_view, table.header,
                                       {r \in RodBoxes : rod_vars'[r]})
        /\ UNCHANGED <<input_box, all_records, current_view, sort_state, running>>
        /\ UNCHANGED <<parse_vars, cache_vars>>

\* _on_close
OnClose ==
    /\ running
    /\ running' = FALSE
    /\ cache' = <<>>
    /\ last_call' = [op |-> "clear"]
    /\ parser_called' = FALSE
    /\ dialog' = "none"
    /\ UNCHANGED <<input_box, all_records, current_records, current_view,
                   sort_state, rod_vars, table>>
    /\ UNCHANGED <<parse_vars, max_size>>

NextApp ==
    \/ PasteInput
    \/ ClearInput
    \/ Analyze
    \/ ShowDetail
    \/ ShowLost
    \/ ShowSummary
    \/ SortByWeight
    \/ SortByExp
    \/ ToggleRod
    \/ OnClose

SpecApp == InitApp /\ [][NextApp]_vars

\* C16: a step of analyze on an input box that holds nothing but blanks and
\* newlines opens the warning, does not call parse_text and leaves
\* all_records, current_records, current_view and the cache as they are;
\* parse_text itself, given such a text, returns the empty list without
\* raising.
C16_EmptyInputRejected ==
    [][ (Analyze /\ StrippedEmpty(input_box))
        => /\ dialog' = "warning"
           /\ parser_called' = FALSE
           /\ all_records' = all_records
           /\ current_records' = current_records
           /\ current_view' = current_view
           /\ cache' = cache
           /\ last_call' = last_call
           /\ ParseRawLines(input_box).pc = "done"
           /\ ParseRawLines(input_box).records = <<>> ]_vars

\* C16 witness: analyze has just warned about an input of blank lines while
\* an earlier analysis is on display in the detail view and in the cache.
C16_Witness ==
    /\ running
    /\ dialog = "warning"
    /\ parser_called = FALSE
    /\ input_box # <<>>
    /\ StrippedEmpty(input_box)
    /\ all_records # <<>>
    /\ current_view = "detail"
    /\ current_records # <<>>
    /\ cache # <<>>

---------------------------------------------------------------------------
(* Rods are correlated independently                                       *)

\* the line is a recognized Hook, Capture or Lost line of rod r
LineOfRod(line, r) == IsEvent(ParseTable[line]) /\ ParseTable[line].rod = r

\* the rods that the lines of `lines` are attributed to
RodsIn(ls) == {ParseTable[ls[i]].rod : i \in {k \in 1..Len(ls) : IsEvent(ParseTable[ls[k]])}}

\* the records of rod r, in their order
RecordsOfRod(recs, r) == SelectSeq(recs, LAMBDA record : record.rod = r)

\* the pending entry of rod r, None if it has none
PendingOf(hooks, r) == IF r \in DOMAIN hooks THEN hooks[r] ELSE None

\* the step on a Hook, Capture or Lost line of rod r leaves the pending
\* entry of every other rod as it was
OtherRodsKept ==
    (InLoop /\ IsEvent(Ev(line_idx))) =>
        /\ DOMAIN hook_cache' \ {Ev(line_idx).rod} = DOMAIN hook_cache \ {Ev(line_idx).rod}
        /\ \A r \in DOMAIN hook_cache \ {Ev(line_idx).rod} :
               hook_cache'[r] = hook_cache[r]

\* C21 as stated: a Hook, Capture or Lost line of rod r leaves the pending
\* entry of every other rod unchanged, and the records that parse_text
\* returns for rod r are those that parse_text returns for the text made of
\* the lines of rod r alone.
C21_RodLinesAlone ==
    [][ /\ OtherRodsKept
        /\ pc' = "done" =>
              \A r \in RodsIn(RawLines(text)) :
                  LET alone == ParseText(SelectSeq(text,
                                   LAMBDA id : LineOfRod(Corpus[id], r)))
                  IN  /\ alone.pc = "done"
                      /\ alone.records = RecordsOfRod(records', r) ]_vars

\* C21 amended: a Hook, Capture or Lost line of rod r leaves the pending
\* entry of every other rod unchanged, and at every point of the pass the
\* records emitted for rod r and the pending entry of rod r are those of the
\* pass over the lines of rod r alone among the lines of
\* text.strip().splitlines() processed so far.
C21_RodsIndependent ==
    [][ /\ OtherRodsKept
        /\ \A r \in RodsIn(Lines) :
               LET mine == SelectSeq(SubSeq(Lines, 1, line_idx' - 1),
                                     LAMBDA line : LineOfRod(line, r))
                   alone == RunLines(mine, Len(mine))
               IN  /\ alone.pc = "loop"
                   /\ alone.records = RecordsOfRod(records', r)
                   /\ PendingOf(alone.hook_cache, r) = PendingOf(hook_cache', r)
                   /\ DOMAIN alone.hook_cache \subseteq {r} ]_vars

\* C21 witness: the events of two rods are interleaved (Hook of r, Hook of
\* r2, Lost of r): the lost record of r carries r's hook and the hook of r2
\* is still pending.
C21_Witness ==
    /\ NProcessed = 3
    /\ Ev(1).type = "hook"
    /\ Ev(2).type = "hook"
    /\ Ev(3).type = "lost"
    /\ Ev(1).rod # Ev(2).rod
    /\ Ev(3).rod = Ev(1).rod
    /\ Len(records) = 1
    /\ records[1].time = Ev(1).time
    /\ DOMAIN hook_cache = {Ev(2).rod}
    /\ hook_cache[Ev(2).rod] = Ev(2)

---------------------------------------------------------------------------
(* RecordCache.set of a key that is present                                *)

\* C22 as stated: set removes a key only when the cache would otherwise
\* hold more than max_size keys: set(key, records) with a key that is
\* present stores the records under the key and leaves the set of keys as
\* it was, also when the cache holds max_size keys; set with a key that is
\* not present, on a cache of fewer than max_size keys, removes no key.
C22_OverwriteEvictsNothing ==
    [][ LET call == last_call'
        IN  /\ (call.op = "set" /\ call.key \in KeysOf(cache))
                => /\ KeysOf(cache') = KeysOf(cache)
                   /\ Lookup(cache', call.key) =
                          [found |-> TRUE, records |-> call.records]
            /\ (call.op = "set" /\ call.key \notin KeysOf(cache)
                               /\ Len(cache) < max_size)
                => KeysOf(cache') = KeysOf(cache) \cup {call.key} ]_vars

---------------------------------------------------------------------------
(* The table views show the records of the last analysis                   *)

\* how many times x stands in the list s
CountIn(s, x) == Cardinality({i \in 1..Len(s) : s[i] = x})

\* the list a is a permutation of the list b
IsPermutation(a, b) ==
    /\ Len(a) = Len(b)
    /\ \A x \in Range(a) \cup Range(b) : CountIn(a, x) = CountIn(b, x)

\* every element of the list a stands in the list b at least as often
IsSublist(a, b) == \A x \in Range(a) : CountIn(a, x) <= CountIn(b, x)

\* C23: in the detail view current_records is a permutation of the records
\* of all_records that are not lost, in the lost view a permutation of
\* those that are lost; and the rows on display, in a table view or in the
\* summary, are records of all_records, so none of an analysis that a later
\* analyze replaced.
C23_ViewShowsLastAnalysis ==
    /\ current_view = "detail" =>
           IsPermutation(current_records, SelectSeq(all_records, NotLost))
    /\ current_view = "lost" =>
           IsPermutation(current_records, SelectSeq(all_records, IsLost))
    /\ current_view \in {"summary", "detail", "lost"}
    /\ IsSublist(table.rows, all_records)

\* C23 witness: after two analyses that found records, the detail view
\* shows, sorted, the two captures of the last one in another order than
\* all_records has them.
C23_Witness ==
    /\ running
    /\ Len(cache) = 2
    /\ cache[2].records = all_records
    /\ cache[1].records # all_records
    /\ current_view = "detail"
    /\ Len(current_records) = 2
    /\ current_records # SelectSeq(all_records, NotLost)
    /\ table.content = "rows"
    /\ table.rows = current_records

---------------------------------------------------------------------------
(* The sort state                                                          *)

\* what a sort handler can change stays as it is
SortChangesNothing ==
    UNCHANGED <<sort_state, current_records, current_view, all_records,
                table, rod_vars, input_box>>

\* C24: sort_state[WEIGHT] and sort_state[EXP] are never both true; a
\* sort_by_exp call in a view other than DETAIL changes neither sort_state
\* nor current_records, and a sort_by_weight or sort_by_exp call in the
\* SUMMARY view or on an empty current_records changes nothing.
C24_SortState ==
    /\ ~(sort_state.weight /\ sort_state.exp)
    /\ [][ /\ ~(sort_state'.weight /\ sort_state'.exp)
           /\ (SortByExp /\ current_view # "detail") => SortChangesNothing
           /\ ((SortByWeight \/ SortByExp)
                  /\ (current_view = "summary" \/ current_records = <<>>))
                 => SortChangesNothing ]_vars

\* C24 witness: the lost view is on display with records while
\* sort_state[EXP] is true, set by sort_by_exp in the detail view before:
\* sort_by_exp is without effect here, and sort_by_weight resets it.
C24_Witness ==
    /\ running
    /\ sort_state.exp
    /\ ~sort_state.weight
    /\ current_view = "lost"
    /\ Len(current_records) = 2
    /\ table.content = "rows"
    /\ table.rows = current_records

=============================================================================
